---- MODULE Spec2Model ----
(***************************************************************************)
(* Model of the LLM-directed browser-automation agent of lora_mcp.         *)
(*                                                                         *)
(* Nine specifications share this module:                                   *)
(*   Spec       one task run of the orchestrator loop, in each of the      *)
(*              repository's front ends (CLI, REST adapter, the two        *)
(*              WebSocket interfaces);                                     *)
(*   SpecWs     two WebSocket handlers of the same session id driving the  *)
(*              same ChatSession (mcp_client/web_interface.py);            *)
(*   SpecServer concurrent /tools/execute and DELETE /sessions requests    *)
(*              against the context registry of mcp_server/main.py and     *)
(*              main2.py;                                                  *)
(*   SpecNav    one TikTok navigation with its slider-CAPTCHA resolution   *)
(*              (mcp_server/main.py and mcp_server/server.py);             *)
(*   SpecConv   the ConversationManager's summarization and media pruning  *)
(*              applied to conversations drawn from a bounded set;         *)
(*   SpecParse  LLMClient.extract_tool_call_json applied to response texts *)
(*              drawn from a bounded set;                                  *)
(*   SpecCaptcha the CAPTCHA detection of mcp_server/server.py and         *)
(*              main.py with the resolution strategy it dispatches to;     *)
(*   SpecRest   the session handling of the REST front ends of src/py;     *)
(*   SpecRate   the rate limiter in front of mcp_server/main2.py.          *)
(***************************************************************************)
EXTENDS Integers, Sequences, FiniteSets, TLC

(***************************************************************************)
(* Program constants.                                                      *)
(***************************************************************************)
max_steps == 20
SUMMARIZATION_TOKEN_THRESHOLD == 50000
KEEP_LAST_TURNS == 1
NEXT_PROMPT_LEN == 45
\* Attempts of one navigation and drags of one slider-CAPTCHA resolution.
max_attempts == 3
puzzle_attempts == 3
\* SecurityConfig.MAX_REQUESTS_PER_MINUTE, by its default.
MAX_REQUESTS_PER_MINUTE == 60

(***************************************************************************)
(* Bounds of the exploration and sizes of the inputs.                      *)
(***************************************************************************)
\* LLM completion calls after which a run is no longer explored (Spec).
CallBound == 23
\* The same for the two concurrent handlers of SpecWs.
WsCallBound == 2
\* Only the first FaultSteps tool executions of a run may end in something
\* other than a plain success.
FaultSteps == 2
\* The same for the two concurrent handlers of SpecWs.
WsFaultSteps == 0
\* Summarizations of one behaviour in which a collaborator raises.
MaxSummaryFaults == 1
\* Characters of a short and of a very long task description.
TaskLenShort == 40
TaskLenLong == 200000
\* Characters of a tool-call response, a plain answer, a summary and the
\* system instruction.
RespLenTool == 60
RespLenText == 200
SummaryLen == 400
SystemLen == 2000

\* Characters of the text of a text content block.
BlockTextLen == 120
\* SpecConv: messages of the fixed opening of a conversation, messages freely
\* chosen after it, and operations applied to one conversation.
MaxFiller == 7
MaxSuffix == 2
MaxOps == 2

\* Concurrent HTTP requests and session ids of SpecServer.
NumRequests == 3
NumSessions == 2

\* Session ids of SpecRest.
NumRestIds == 3

\* SpecRate: users, ticks to the minute, the last tick explored, and the
\* requests of a user other than the first that the limiter may hold.
NumUsers == 2
WindowTicks == 2
MaxTick == 2
OtherUserRequests == 1

Handlers == {1, 2}
Requests == 1..NumRequests
Sessions == 1..NumSessions
FrontEnds == {"cli", "adapter", "webnew", "web"}
Servers == {"main", "main2"}
TaskLens == {TaskLenShort, TaskLenLong}
ToolOutcomes == {"ok", "image", "error", "exception"}
SummaryOutcomes == {"ok", "llm_failed", "recreate_failed"}

VARIABLES
    frontend,          \* which front end drives the loop
    handlers,          \* the handlers that exist in this configuration
    callBound,         \* exploration bound on LLM calls per run
    faultSteps,        \* exploration bound on the steps whose tool may fail
    pc,                \* handler -> position in execute_task / handle_task_execution
    step_count,        \* handler -> step_count (nb_request - 1 in the CLI)
    stop_reason,       \* handler -> "unset" | "tool_use" | "content_stopped"
    parsed_tool_call,  \* handler -> whether the last response parsed as a tool call
    tool_results,      \* handler -> content returned by the tool in flight / last tool
    nb_llm_calls,      \* handler -> get_response calls of the run
    nb_tool_execs,     \* handler -> execute_tool calls of the run
    messages,          \* ConversationManager.messages of the shared ChatSession
    total_tokens_used, \* LLMClient.total_tokens_used
    active_task,       \* ConnectionManager.active_tasks[session_id]
    events,            \* handler -> final messages sent to the user by its run
    sum_faults,        \* summarizations in which a collaborator raised so far
    sum_outcome,       \* handler -> what its last summarize_conversation did
    llm_raw_response,  \* handler -> kind of the last LLM response it received
    tool_outcome,      \* handler -> how its last POST /tools/execute ended
    contexts,          \* server: session id -> registered context handle (0: none)
    created,           \* server: the session of every context created, by handle
    closed,            \* server: handles cleanup_context ran its closes on
    rpc,               \* server: request -> position in its handler
    rop,               \* server: request -> "tool" | "unknown_tool" | "forbidden_tool" | "cleanup"
    rsid,              \* server: request -> session id it names
    rctx,              \* server: request -> context handle it holds (0: none)
    rres,              \* server: request -> the response it got
    server,            \* server: which module serves ("main" | "main2")
    impl,              \* navigation: which module navigates ("main" | "server")
    npc,               \* navigation: position in the navigation function
    attempt,           \* navigation: the loop variable attempt
    gotos,             \* navigation: page.goto calls made so far
    page,              \* navigation: what the page shows
    solved,            \* CAPTCHA: result of the resolution of this attempt
    drags,             \* CAPTCHA: drags made by the resolution of this attempt
    nav_result,        \* navigation: the success field of the returned dict
    prev_messages,     \* memory: the conversation before the last operation
    conv_ops,          \* memory: the operations applied so far
    parse_text,        \* parsing: the response text last parsed
    parse_result,      \* parsing: what extract_tool_call_json returned for it
    stop_sent,         \* handler -> nb_tool_execs when its client sent stop_execution (-1: none pending)
    llm_context,       \* what LLMClient._chat_session has been sent since it was created
    waits,             \* navigation: seconds slept before each retry so far
    slide_distance,    \* CAPTCHA: horizontal offset of the last drag (0: no drag yet)
    steps,             \* CAPTCHA: pointer-move steps of the last drag (0: no drag yet)
    cap_pc,            \* detection: position in detect_and_solve_captcha
    cap_sigs,          \* detection: the families whose signature the page matches
    cap_service,       \* detection: whether CAPTCHA_SERVICE_KEY is configured
    cap_family,        \* detection: the family whose strategy was called
    cap_result,        \* detection: keys and solved value of the returned dict
    rest_impl,         \* REST: which module serves ("mcp_server_api" | "api_server")
    rest_sessions,     \* REST: session id -> "absent" | "active" | "closed"
    rest_created,      \* REST: ids handed out by a session-creating endpoint
    rest_last,         \* REST: the last tool call and how it was answered
    rl_now,            \* rate limiter: the current time in ticks
    rl_requests,       \* rate limiter: user -> times of its recorded requests
    rl_last            \* rate limiter: the last request and what happened to it

loopVars == <<frontend, handlers, callBound, faultSteps, pc, step_count, stop_reason,
              parsed_tool_call, tool_results, nb_llm_calls, nb_tool_execs,
              messages, total_tokens_used, active_task, events, sum_faults,
              sum_outcome, llm_raw_response, tool_outcome, stop_sent, llm_context>>
srvVars == <<contexts, created, closed, rpc, rop, rsid, rctx, rres, server>>
navVars == <<impl, npc, attempt, gotos, page, solved, drags, nav_result, waits,
             slide_distance, steps>>
pureVars == <<prev_messages, conv_ops, parse_text, parse_result>>
capVars == <<cap_pc, cap_sigs, cap_service, cap_family, cap_result>>
restVars == <<rest_impl, rest_sessions, rest_created, rest_last>>
rateVars == <<rl_now, rl_requests, rl_last>>
extVars == <<capVars, restVars, rateVars>>
vars == <<loopVars, srvVars, navVars, pureVars, extVars>>

(***************************************************************************)
(* Messages and content blocks.  A content is either a string (isstr, with *)
(* its length in characters) or a list of typed content blocks.            *)
(***************************************************************************)
Str(tag, n) == [isstr |-> TRUE, tag |-> tag, len |-> n, blocks |-> <<>>]
Blocks(bs) == [isstr |-> FALSE, tag |-> "blocks", len |-> 0, blocks |-> bs]
Block(kind, tag) == [kind |-> kind, tag |-> tag]
Msg(role, content) == [role |-> role, content |-> content]

add_message(msgs, role, content) == Append(msgs, Msg(role, content))

estimate_token_count(n) == n \div 4

should_summarize(tokens) == tokens > SUMMARIZATION_TOKEN_THRESHOLD

RECURSIVE StrTokens(_)
\* The loop of summarize_conversation that recomputes the estimate: only
\* string contents are counted.
StrTokens(msgs) ==
    IF msgs = <<>> THEN 0
    ELSE (IF Head(msgs).content.isstr
          THEN estimate_token_count(Head(msgs).content.len) ELSE 0)
         + StrTokens(Tail(msgs))

\* messages[-KEEP_LAST_TURNS*2:]
last_turns(msgs) ==
    SubSeq(msgs, Len(msgs) - KEEP_LAST_TURNS * 2 + 1, Len(msgs))

\* new_messages as it would be if the system message were not carried over.
new_messages_drops_system(msgs) ==
    <<Msg("assistant", Str("summary", SummaryLen))>> \o last_turns(msgs)

\* The message list summarize_conversation builds inside its try block.
new_messages(msgs) ==
    (IF msgs[1].role = "system" THEN <<msgs[1]>> ELSE <<>>)
    \o <<Msg("assistant", Str("summary", SummaryLen))>>
    \o last_turns(msgs)

\* ConversationManager.summarize_conversation.  outcome says where the
\* collaborators fail: "llm_failed" when the temporary session's
\* send_message raises, "recreate_failed" when recreate_session raises.
\* The result is the conversation and the estimate the method leaves, and
\* whether it reached the LLM at all.
summarize_conversation(msgs, tokens, outcome) ==
    IF Len(msgs) <= KEEP_LAST_TURNS * 2 + 1
    THEN [messages |-> msgs, tokens |-> tokens, did |-> "skipped"]
    ELSE IF outcome = "llm_failed"
    THEN [messages |-> msgs, tokens |-> tokens, did |-> outcome]
    ELSE IF outcome = "recreate_failed"
    THEN [messages |-> new_messages(msgs), tokens |-> tokens, did |-> outcome]
    ELSE [messages |-> new_messages(msgs),
          tokens |-> StrTokens(new_messages(msgs)), did |-> outcome]

\* last_user_index as it would be if the search ran from the front.
first_user_index(msgs) ==
    IF \E i \in 1..Len(msgs) : msgs[i].role = "user"
    THEN CHOOSE i \in 1..Len(msgs) :
            /\ msgs[i].role = "user"
            /\ \A j \in 1..(i - 1) : msgs[j].role # "user"
    ELSE 0

\* Index of the last user message, 0 when there is none.
last_user_index(msgs) ==
    IF \E i \in 1..Len(msgs) : msgs[i].role = "user"
    THEN CHOOSE i \in 1..Len(msgs) :
            /\ msgs[i].role = "user"
            /\ \A j \in (i + 1)..Len(msgs) : msgs[j].role # "user"
    ELSE 0

\* strip_media as it would be if the placeholder were added every time.
strip_media_appends_placeholder(bs) ==
    SelectSeq(bs, LAMBDA b : b.kind \notin {"image", "json"})
        \o <<Block("text", "placeholder")>>

\* The filter of remove_media_except_last_turn on one block list.
strip_media(bs) ==
    LET kept == SelectSeq(bs, LAMBDA b : b.kind \notin {"image", "json"})
    IN IF kept = <<>> THEN <<Block("text", "placeholder")>> ELSE kept

\* remove_media_except_last_turn as it would be if its range included the
\* last user message.
remove_media_including_last_turn(msgs) ==
    IF Len(msgs) < 2 \/ last_user_index(msgs) = 0 THEN msgs
    ELSE [i \in 1..Len(msgs) |->
            IF i <= last_user_index(msgs) /\ ~msgs[i].content.isstr
            THEN Msg(msgs[i].role, Blocks(strip_media(msgs[i].content.blocks)))
            ELSE msgs[i]]

\* ConversationManager.remove_media_except_last_turn.
remove_media_except_last_turn(msgs) ==
    IF Len(msgs) < 2 \/ last_user_index(msgs) = 0 THEN msgs
    ELSE [i \in 1..Len(msgs) |->
            IF i < last_user_index(msgs) /\ ~msgs[i].content.isstr
            THEN Msg(msgs[i].role, Blocks(strip_media(msgs[i].content.blocks)))
            ELSE msgs[i]]

\* execute_tool as it would be if its except clause re-raised.
execute_tool_result_reraises(outcome) ==
    CASE outcome = "ok" ->
           [raised |-> FALSE,
            content |-> <<Block("json", "result"), Block("text", "page_info")>>]
      [] outcome = "image" ->
           [raised |-> FALSE,
            content |-> <<Block("image", "screenshot"), Block("text", "page_info")>>]
      [] outcome = "error" ->
           [raised |-> FALSE,
            content |-> <<Block("text", "error"), Block("text", "page_info")>>]
      [] OTHER ->
           [raised |-> TRUE, content |-> <<>>]

\* HTTPServer.execute_tool: what the client returns for each outcome of the
\* POST /tools/execute.  Every path returns a toolResult; raised says whether
\* an exception leaves the method.
execute_tool_result(outcome) ==
    CASE outcome = "ok" ->
           [raised |-> FALSE,
            content |-> <<Block("json", "result"), Block("text", "page_info")>>]
      [] outcome = "image" ->
           [raised |-> FALSE,
            content |-> <<Block("image", "screenshot"), Block("text", "page_info")>>]
      [] outcome = "error" ->
           [raised |-> FALSE,
            content |-> <<Block("text", "error"), Block("text", "page_info")>>]
      [] OTHER ->
           [raised |-> FALSE, content |-> <<Block("text", "error")>>]

\* LLMClient.extract_tool_call_json on a response of the given kind.
extract_tool_call_json(kind) == kind = "tool"

RespLen(kind) == IF kind = "tool" THEN RespLenTool ELSE RespLenText

\* The loop conditions as they would be if the CLI ignored stop_reason.
loop_condition_ignores_stop(fe, h, sr, sc, running) ==
    CASE fe = "cli" -> TRUE
      [] fe = "adapter" -> sr = "tool_use"
      [] fe = "webnew" -> sr = "tool_use" /\ sc < max_steps
      [] OTHER -> sr = "tool_use" /\ sc < max_steps /\ running

\* The loop condition of each front end.
loop_condition(fe, h, sr, sc, running) ==
    CASE fe = "cli" -> sr = "tool_use"
      [] fe = "adapter" -> sr = "tool_use"
      [] fe = "webnew" -> sr = "tool_use" /\ sc < max_steps
      [] OTHER -> sr = "tool_use" /\ sc < max_steps /\ running

HasCap(fe) == fe \in {"webnew", "web"}

(***************************************************************************)
(* Initial states.                                                         *)
(***************************************************************************)
SrvOff ==
    /\ contexts = [s \in {} |-> 0]
    /\ created = <<>>
    /\ closed = {}
    /\ rpc = [r \in {} |-> "off"]
    /\ rop = [r \in {} |-> "none"]
    /\ rsid = [r \in {} |-> 0]
    /\ rctx = [r \in {} |-> 0]
    /\ rres = [r \in {} |-> "none"]
    /\ server = "none"

\* What the navigation and the CAPTCHA resolution observe of the page: whether
\* its title or its URL is that of an error page, whether the challenge is on
\* the page, whether an element matching a success selector is, and whether
\* a video element is.
BlankPage ==
    [error_title |-> FALSE, error_url |-> FALSE, captcha |-> FALSE,
     icon |-> FALSE, video |-> FALSE]

NavOff ==
    /\ impl = "none"
    /\ npc = "off"
    /\ attempt = 0
    /\ gotos = 0
    /\ page = BlankPage
    /\ solved = "none"
    /\ drags = 0
    /\ nav_result = "none"
    /\ waits = <<>>
    /\ slide_distance = 0
    /\ steps = 0

\* A response text, by what extract_tool_call_json looks at: the fence around
\* its body ("json" and "JSON" are ```json and ```JSON, "plain" is ``` with
\* no language, "none" no fence), whether there is prose outside the body,
\* whether white space surrounds it, the body (a well-formed JSON object,
\* braces around something json.loads rejects, a JSON array, plain words or
\* nothing), and the keys of the object.
EmptyText ==
    [fence |-> "none", prose |-> FALSE, pad |-> FALSE, body |-> "empty", keys |-> {}]

PureOff ==
    /\ prev_messages = <<>>
    /\ conv_ops = <<>>
    /\ parse_text = EmptyText
    /\ parse_result = <<>>

\* The dict a CAPTCHA strategy returns, by its keys and by the value under
\* "solved" ("absent" when the dict has no such key or nothing was returned).
NoResult == [keys |-> {}, solved |-> "absent"]

CapOff ==
    /\ cap_pc = "off"
    /\ cap_sigs = {}
    /\ cap_service = FALSE
    /\ cap_family = "none"
    /\ cap_result = NoResult

\* A tool call to a REST endpoint: the endpoint, the session id of the request
\* (0: none given), how the id stood when the call arrived, the answer, and
\* whether the endpoint acted on a page.
NoCall ==
    [tool |-> "none", sid |-> 0, was |-> "absent", status |-> "none", acted |-> FALSE]

RestOff ==
    /\ rest_impl = "none"
    /\ rest_sessions = [s \in {} |-> "absent"]
    /\ rest_created = {}
    /\ rest_last = NoCall

\* A request through rate_limit_middleware: the user, how many requests of
\* that user the limiter held inside the window when it arrived, the status
\* of the response, and whether call_next ran the endpoint.
NoRequest == [user |-> 0, held |-> 0, status |-> 0, reached |-> FALSE]

RateOff ==
    /\ rl_now = 0
    /\ rl_requests = [u \in {} |-> <<>>]
    /\ rl_last = NoRequest

ExtOff == CapOff /\ RestOff /\ RateOff

LoopInit(fes, hs, bound, fsteps) ==
    /\ frontend \in fes
    /\ handlers = hs
    /\ callBound = bound
    /\ faultSteps = fsteps
    /\ pc = [h \in Handlers |-> IF h \in hs THEN "idle" ELSE "off"]
    /\ step_count = [h \in Handlers |-> 0]
    /\ stop_reason = [h \in Handlers |-> "unset"]
    /\ parsed_tool_call = [h \in Handlers |-> FALSE]
    /\ tool_results = [h \in Handlers |-> <<>>]
    /\ nb_llm_calls = [h \in Handlers |-> 0]
    /\ nb_tool_execs = [h \in Handlers |-> 0]
    /\ messages = <<Msg("system", Str("system", SystemLen))>>
    /\ total_tokens_used = 0
    /\ active_task = FALSE
    /\ events = [h \in Handlers |-> {}]
    /\ sum_faults = 0
    /\ sum_outcome = [h \in Handlers |-> "none"]
    /\ llm_raw_response = [h \in Handlers |-> "none"]
    /\ tool_outcome = [h \in Handlers |-> "none"]
    /\ stop_sent = [h \in Handlers |-> -1]
    /\ llm_context = <<"system">>

Init == LoopInit(FrontEnds, {1}, CallBound, FaultSteps) /\ SrvOff /\ NavOff /\ PureOff /\ ExtOff

(***************************************************************************)
(* The orchestrator loop: ChatSession.execute_task (CLI),                  *)
(* MCPApiAdapter.execute_task (adapter) and handle_task_execution (the two *)
(* WebSocket interfaces), one action per stretch between suspension points.*)
(***************************************************************************)
Responses == {"tool", "text", "fail"}

\* Where an exception raised inside the run ends up: the CLI's execute_task
\* has no handler, the other front ends catch it and report an error.
Fail(h) ==
    /\ pc' = [pc EXCEPT ![h] = IF frontend = "cli" THEN "raised" ELSE "done"]
    /\ events' = [events EXCEPT
                    ![h] = IF frontend = "cli" THEN @ ELSE @ \cup {"error"}]
    /\ active_task' = IF frontend = "web" THEN FALSE ELSE active_task

\* What the chat session holds after _chat_session.send_message(message) of
\* get_response: the message and the reply once the call has returned.
send_message(ctx, message, r) ==
    IF r = "fail" THEN ctx ELSE ctx \o <<message, "reply">>

\* LLMClient.recreate_session as summarize_conversation reaches it: the new
\* chat is sent the system instruction and nothing else.  When the method
\* raises, its send_message has: the chat is already the new, empty one.
recreate_session(ctx, did) ==
    CASE did = "ok" -> <<"system">>
      [] did = "recreate_failed" -> <<>>
      [] OTHER -> ctx

\* LLMClient.get_response: the estimate after a call that returned.
get_response_tokens(tokens, msgLen, kind) ==
    tokens + estimate_token_count(msgLen) + estimate_token_count(RespLen(kind))

StartTaskOf(h, n, r) ==
    /\ pc[h] = "idle"
    /\ messages' = IF r = "fail"
                   THEN add_message(messages, "user", Str("task", n))
                   ELSE add_message(add_message(messages, "user", Str("task", n)),
                                    "assistant", Str(r, RespLen(r)))
    /\ nb_llm_calls' = [nb_llm_calls EXCEPT ![h] = @ + 1]
    /\ IF r = "fail"
       THEN /\ Fail(h)
            /\ UNCHANGED <<total_tokens_used, parsed_tool_call, stop_reason>>
       ELSE /\ total_tokens_used' = get_response_tokens(total_tokens_used, n, r)
            /\ parsed_tool_call' =
                   [parsed_tool_call EXCEPT ![h] = extract_tool_call_json(r)]
            /\ IF extract_tool_call_json(r)
               THEN /\ pc' = [pc EXCEPT ![h] = "loop"]
                    /\ stop_reason' = [stop_reason EXCEPT ![h] = "tool_use"]
                    /\ events' = events
                    /\ active_task' = IF frontend = "web" THEN TRUE ELSE active_task
               ELSE /\ pc' = [pc EXCEPT ![h] = "done"]
                    /\ stop_reason' = stop_reason
                    /\ events' = [events EXCEPT
                          ![h] = IF HasCap(frontend) THEN @ \cup {"answer"} ELSE @]
                    /\ active_task' = IF frontend = "web" THEN FALSE ELSE active_task
    /\ llm_raw_response' = [llm_raw_response EXCEPT ![h] = r]
    /\ llm_context' = send_message(llm_context, "task", r)
    /\ UNCHANGED <<frontend, handlers, callBound, faultSteps, stop_sent, step_count, tool_results,
                   nb_tool_execs, sum_faults, sum_outcome, tool_outcome>>
    /\ UNCHANGED <<srvVars, navVars, pureVars, extVars>>

StartTask == \E h \in handlers, n \in TaskLens, r \in Responses : StartTaskOf(h, n, r)

\* The loop condition holds: count the step and send the tool call.
LoopEnterOf(h) ==
    /\ pc[h] = "loop"
    /\ loop_condition(frontend, h, stop_reason[h], step_count[h], active_task)
    /\ nb_llm_calls[h] < callBound
    /\ step_count' = [step_count EXCEPT ![h] = @ + 1]
    /\ nb_tool_execs' = [nb_tool_execs EXCEPT ![h] = @ + 1]
    /\ pc' = [pc EXCEPT ![h] = "tool"]
    /\ UNCHANGED <<frontend, handlers, callBound, faultSteps, stop_sent, llm_context, stop_reason, parsed_tool_call,
                   tool_results, nb_llm_calls, messages, total_tokens_used,
                   active_task, events, sum_faults, sum_outcome, llm_raw_response, tool_outcome>>
    /\ UNCHANGED <<srvVars, navVars, pureVars, extVars>>

LoopEnter == \E h \in handlers : LoopEnterOf(h)

\* The loop condition fails.
LoopExitOf(h) ==
    /\ pc[h] = "loop"
    /\ ~loop_condition(frontend, h, stop_reason[h], step_count[h], active_task)
    /\ pc' = [pc EXCEPT ![h] = "after_loop"]
    /\ UNCHANGED <<frontend, handlers, callBound, faultSteps, stop_sent, llm_context, step_count, stop_reason,
                   parsed_tool_call, tool_results, nb_llm_calls, nb_tool_execs,
                   messages, total_tokens_used, active_task, events, sum_faults,
                   sum_outcome, llm_raw_response, tool_outcome>>
    /\ UNCHANGED <<srvVars, navVars, pureVars, extVars>>

LoopExit == \E h \in handlers : LoopExitOf(h)

\* process_tool_requests returns: execute_tool has answered.
ToolReturnOf(h, o) ==
    /\ pc[h] = "tool"
    /\ o # "ok" => step_count[h] <= faultSteps
    /\ IF execute_tool_result(o).raised
       THEN /\ Fail(h)
            /\ UNCHANGED tool_results
       ELSE /\ tool_results' = [tool_results EXCEPT ![h] = execute_tool_result(o).content]
            /\ pc' = [pc EXCEPT ![h] = "result"]
            /\ UNCHANGED <<events, active_task>>
    /\ tool_outcome' = [tool_outcome EXCEPT ![h] = o]
    /\ UNCHANGED <<frontend, handlers, callBound, faultSteps, stop_sent, llm_context, step_count, stop_reason,
                   parsed_tool_call, nb_llm_calls, nb_tool_execs, messages,
                   total_tokens_used, sum_faults, sum_outcome, llm_raw_response>>
    /\ UNCHANGED <<srvVars, navVars, pureVars, extVars>>

ToolReturn == \E h \in handlers, o \in ToolOutcomes : ToolReturnOf(h, o)

\* conversation.add_message("user", tool_results["content"]) and the
\* should_summarize() test.
RecordResultOf(h) ==
    /\ pc[h] = "result"
    /\ messages' = add_message(messages, "user", Blocks(tool_results[h]))
    /\ pc' = [pc EXCEPT ![h] = IF should_summarize(total_tokens_used)
                               THEN "summarize" ELSE "hygiene"]
    /\ UNCHANGED <<frontend, handlers, callBound, faultSteps, stop_sent, llm_context, step_count, stop_reason,
                   parsed_tool_call, tool_results, nb_llm_calls, nb_tool_execs,
                   total_tokens_used, active_task, events, sum_faults, sum_outcome, llm_raw_response, tool_outcome>>
    /\ UNCHANGED <<srvVars, navVars, pureVars, extVars>>

RecordResult == \E h \in handlers : RecordResultOf(h)

\* conversation.summarize_conversation()
SummarizeOf(h, o) ==
    /\ pc[h] = "summarize"
    /\ o # "ok" => sum_faults < MaxSummaryFaults
    /\ sum_faults' = IF o # "ok" THEN sum_faults + 1 ELSE sum_faults
    /\ LET r == summarize_conversation(messages, total_tokens_used, o)
       IN /\ messages' = r.messages
          /\ total_tokens_used' = r.tokens
          /\ sum_outcome' = [sum_outcome EXCEPT ![h] = r.did]
          /\ llm_context' = recreate_session(llm_context, r.did)
    /\ pc' = [pc EXCEPT ![h] = "hygiene"]
    /\ UNCHANGED <<frontend, handlers, callBound, faultSteps, stop_sent, step_count, stop_reason,
                   parsed_tool_call, tool_results, nb_llm_calls, nb_tool_execs,
                   active_task, events, llm_raw_response, tool_outcome>>
    /\ UNCHANGED <<srvVars, navVars, pureVars, extVars>>

Summarize == \E h \in handlers, o \in SummaryOutcomes : SummarizeOf(h, o)

\* conversation.remove_media_except_last_turn(); the adapter does not call it.
RemoveMediaOf(h) ==
    /\ pc[h] = "hygiene"
    /\ messages' = IF frontend = "adapter" THEN messages
                   ELSE remove_media_except_last_turn(messages)
    /\ pc' = [pc EXCEPT ![h] = "prompt"]
    /\ UNCHANGED <<frontend, handlers, callBound, faultSteps, stop_sent, llm_context, step_count, stop_reason,
                   parsed_tool_call, tool_results, nb_llm_calls, nb_tool_execs,
                   total_tokens_used, active_task, events, sum_faults, sum_outcome, llm_raw_response, tool_outcome>>
    /\ UNCHANGED <<srvVars, navVars, pureVars, extVars>>

RemoveMedia == \E h \in handlers : RemoveMediaOf(h)

\* get_response(next_prompt), extract_tool_call_json, add_message("assistant")
\* and the test that ends or continues the loop.
PromptOf(h, r) ==
    /\ pc[h] = "prompt"
    /\ nb_llm_calls' = [nb_llm_calls EXCEPT ![h] = @ + 1]
    /\ IF r = "fail"
       THEN /\ Fail(h)
            /\ UNCHANGED <<messages, total_tokens_used, parsed_tool_call, stop_reason>>
       ELSE /\ total_tokens_used' =
                   get_response_tokens(total_tokens_used, NEXT_PROMPT_LEN, r)
            /\ parsed_tool_call' =
                   [parsed_tool_call EXCEPT ![h] = extract_tool_call_json(r)]
            /\ messages' = add_message(messages, "assistant", Str(r, RespLen(r)))
            /\ stop_reason' = [stop_reason EXCEPT
                   ![h] = IF extract_tool_call_json(r)
                          THEN "tool_use" ELSE "content_stopped"]
            \* the WebSocket interfaces and the adapter break out of the loop,
            \* the CLI goes back to the loop condition
            /\ pc' = [pc EXCEPT
                   ![h] = IF extract_tool_call_json(r) \/ frontend = "cli"
                          THEN "loop" ELSE "after_loop"]
            /\ events' = [events EXCEPT
                   ![h] = IF ~extract_tool_call_json(r) /\ frontend # "cli"
                          THEN @ \cup {"completed"} ELSE @]
            /\ active_task' = active_task
    /\ llm_raw_response' = [llm_raw_response EXCEPT ![h] = r]
    /\ llm_context' = send_message(llm_context, "next_prompt", r)
    /\ UNCHANGED <<frontend, handlers, callBound, faultSteps, stop_sent, step_count, tool_results,
                   nb_tool_execs, sum_faults, sum_outcome, tool_outcome>>
    /\ UNCHANGED <<srvVars, navVars, pureVars, extVars>>

Prompt == \E h \in handlers, r \in Responses : PromptOf(h, r)

\* The code after the loop: the step-limit note of the WebSocket interfaces,
\* then the run returns.
FinishOf(h) ==
    /\ pc[h] = "after_loop"
    /\ events' = [events EXCEPT
           ![h] = IF HasCap(frontend) /\ step_count[h] >= max_steps
                  THEN @ \cup {"max_steps_note"} ELSE @]
    /\ active_task' = IF frontend = "web" THEN FALSE ELSE active_task
    /\ pc' = [pc EXCEPT ![h] = "done"]
    /\ UNCHANGED <<frontend, handlers, callBound, faultSteps, stop_sent, llm_context, step_count, stop_reason,
                   parsed_tool_call, tool_results, nb_llm_calls, nb_tool_execs,
                   messages, total_tokens_used, sum_faults, sum_outcome, llm_raw_response, tool_outcome>>
    /\ UNCHANGED <<srvVars, navVars, pureVars, extVars>>

Finish == \E h \in handlers : FinishOf(h)

\* websocket_endpoint of another connection with the same session id receives
\* {"type": "stop_execution"}: manager.set_task_status(session_id, False).
StopExecution ==
    /\ frontend = "web"
    /\ active_task
    /\ active_task' = FALSE
    /\ UNCHANGED <<frontend, handlers, callBound, faultSteps, stop_sent, llm_context, pc, step_count, stop_reason,
                   parsed_tool_call, tool_results, nb_llm_calls, nb_tool_execs,
                   messages, total_tokens_used, events, sum_faults, sum_outcome, llm_raw_response, tool_outcome>>
    /\ UNCHANGED <<srvVars, navVars, pureVars, extVars>>

\* The client of handler h sends {"type": "stop_execution"} on its own
\* connection while handle_task_execution runs.  websocket_endpoint awaits
\* handle_task_execution inside its receive loop, so the message waits in the
\* socket until the run has returned.
ClientSendsStopOf(h) ==
    /\ frontend = "web"
    /\ pc[h] \in {"loop", "tool", "result", "summarize", "hygiene", "prompt"}
    /\ active_task
    /\ stop_sent[h] = -1
    /\ stop_sent' = [stop_sent EXCEPT ![h] = nb_tool_execs[h]]
    /\ UNCHANGED <<frontend, handlers, callBound, faultSteps, llm_context, pc, step_count,
                   stop_reason, parsed_tool_call, tool_results, nb_llm_calls,
                   nb_tool_execs, messages, total_tokens_used, active_task, events,
                   sum_faults, sum_outcome, llm_raw_response, tool_outcome>>
    /\ UNCHANGED <<srvVars, navVars, pureVars, extVars>>

ClientSendsStop == \E h \in handlers : ClientSendsStopOf(h)

\* websocket_endpoint is back at receive_text and reads the waiting message:
\* manager.set_task_status(session_id, False).
ReceiveStopOf(h) ==
    /\ frontend = "web"
    /\ pc[h] = "done"
    /\ stop_sent[h] >= 0
    /\ active_task' = FALSE
    /\ stop_sent' = [stop_sent EXCEPT ![h] = -1]
    /\ UNCHANGED <<frontend, handlers, callBound, faultSteps, llm_context, pc, step_count,
                   stop_reason, parsed_tool_call, tool_results, nb_llm_calls,
                   nb_tool_execs, messages, total_tokens_used, events,
                   sum_faults, sum_outcome, llm_raw_response, tool_outcome>>
    /\ UNCHANGED <<srvVars, navVars, pureVars, extVars>>

ReceiveStop == \E h \in handlers : ReceiveStopOf(h)

Next ==
    \/ StartTask
    \/ LoopEnter
    \/ LoopExit
    \/ ToolReturn
    \/ RecordResult
    \/ Summarize
    \/ RemoveMedia
    \/ Prompt
    \/ Finish
    \/ StopExecution
    \/ ClientSendsStop
    \/ ReceiveStop

Spec == Init /\ [][Next]_vars

(***************************************************************************)
(* Properties of the orchestrator loop (Spec).                             *)
(***************************************************************************)
Last(seq) == seq[Len(seq)]

\* C1: in any task run the orchestrator issues at most max_steps + 1 LLM
\* completion calls.
C1_AtMostMaxStepsPlusOneCalls ==
    \A h \in handlers : nb_llm_calls[h] <= max_steps + 1

\* How a run that returned without an error ended.
Done(h) == pc[h] = "done" /\ llm_raw_response[h] = "text"
AbortedMaxSteps(h) ==
    pc[h] = "done" /\ llm_raw_response[h] = "tool" /\ step_count[h] >= max_steps

\* C2: the note that the maximum step limit was reached is emitted exactly
\* in the runs that end in Aborted(MaxSteps), never in a run that ended in
\* Done (stated for the runs that end without an error).
C2_NoteOnlyWhenAborted ==
    \A h \in handlers :
        pc[h] = "done" /\ HasCap(frontend) /\ "error" \notin events[h] =>
            /\ "max_steps_note" \in events[h] <=> AbortedMaxSteps(h)
            /\ "max_steps_note" \in events[h] => ~Done(h)

\* C3: a run stops on the first LLM response that is not a tool call: the
\* response is the assistant turn that ends the conversation, and from then
\* on the run executes no tool and makes no LLM call.
C3_StopsOnFirstPlainAnswer ==
    [][\A h \in handlers :
          /\ llm_raw_response'[h] = "text" =>
                Last(messages') = Msg("assistant", Str("text", RespLenText))
          /\ llm_raw_response[h] = "text" =>
                /\ llm_raw_response'[h] = "text"
                /\ nb_llm_calls'[h] = nb_llm_calls[h]
                /\ nb_tool_execs'[h] = nb_tool_execs[h]
                /\ pc'[h] \in {"loop", "after_loop", "done"}]_vars

\* A run that executed a tool, then got a plain answer and returned.
C3_Witness ==
    \E h \in handlers :
        /\ pc[h] = "done"
        /\ llm_raw_response[h] = "text"
        /\ nb_tool_execs[h] >= 1
        /\ Last(messages) = Msg("assistant", Str("text", RespLenText))

ErrorTagged(content) ==
    \E i \in 1..Len(content) : content[i] = Block("text", "error")

C5_ResultRecordedBeforePrompt ==
    [][\A h \in handlers :
          /\ pc[h] \in {"tool", "result"} => nb_llm_calls'[h] = nb_llm_calls[h]
          /\ nb_llm_calls'[h] > nb_llm_calls[h] /\ nb_tool_execs[h] > 0 =>
                /\ pc[h] = "prompt"
                /\ Last(messages) = Msg("user", Blocks(tool_results[h]))]_vars

\* A second LLM prompt was answered after a tool had returned a result.
C5_Witness ==
    \E h \in handlers :
        /\ nb_llm_calls[h] >= 2
        /\ nb_tool_execs[h] >= 1
        /\ tool_outcome[h] = "ok"
        /\ llm_raw_response[h] \in {"tool", "text"}

\* C10: a summarization in which a collaborator raises is a soft no-op: no
\* exception escapes, and the message list and the token estimate are what
\* they were before the attempt.
C10_FailedSummarizationIsNoOp ==
    [][\A h \in handlers :
          /\ pc[h] = "summarize"
          /\ pc'[h] # "summarize"
          /\ sum_outcome'[h] \in {"llm_failed", "recreate_failed"}
          => /\ pc'[h] = "hygiene"
             /\ messages' = messages
             /\ total_tokens_used' = total_tokens_used]_vars

\* C12: a failed LLM completion call during a task never escapes the run as
\* a raw exception: the run returns, and the caller has been sent an error
\* message.
C12_LlmFailureNeverEscapesRaw ==
    \A h \in handlers :
        llm_raw_response[h] = "fail" =>
            pc[h] = "done" /\ "error" \in events[h]

\* C27: once the client has sent stop_execution for a session whose task loop
\* is running, the loop executes no further tool; the one execution that the
\* loop may be entering as the message arrives is not counted.
C27_StopHaltsLoopBeforeNextTool ==
    \A h \in handlers :
        stop_sent[h] >= 0 => nb_tool_execs[h] <= stop_sent[h] + 1

\* The message log holds the summary of a summarization.
LogHasSummary ==
    \E i \in 1..Len(messages) :
        messages[i].content.isstr /\ messages[i].content.tag = "summary"

\* C28: when the continuation prompt that follows a summarization is about
\* to be sent, the recreated LLM session has been given the summary the
\* message log now holds.
C28_RecreatedSessionHoldsSummary ==
    \A h \in handlers :
        pc[h] = "prompt" /\ sum_outcome[h] = "ok" /\ LogHasSummary =>
            \E i \in 1..Len(llm_context) : llm_context[i] = "summary"

(***************************************************************************)
(* Two WebSocket connections opened with the same session id: each has its *)
(* own websocket_endpoint coroutine, and get_or_create_chat_session hands  *)
(* both the same ChatSession, hence the same conversation, LLM client and  *)
(* running flag.                                                           *)
(***************************************************************************)
InitWs ==
    LoopInit({"web"}, {1, 2}, WsCallBound, WsFaultSteps) /\ SrvOff /\ NavOff /\ PureOff /\ ExtOff

SpecWs == InitWs /\ [][Next]_vars

\* C9: summarization never runs while a tool call of the same session is in
\* flight.
C9_NoSummarizationWhileToolInFlight ==
    [][\A h \in handlers :
          /\ pc[h] = "summarize"
          /\ pc'[h] # "summarize"
          /\ sum_outcome'[h] # "skipped"
          => \A g \in handlers : pc[g] # "tool"]_vars

(***************************************************************************)
(* The context registry of mcp_server/main.py under concurrent requests.   *)
(* Every request is a coroutine of the same event loop; an action is the   *)
(* stretch of its handler between two awaits.                              *)
(***************************************************************************)
InitServer ==
    /\ LoopInit({"cli"}, {}, 0, 0)
    /\ contexts = [s \in Sessions |-> 0]
    /\ created = <<>>
    /\ closed = {}
    /\ rpc = [r \in Requests |-> "idle"]
    /\ rop = [r \in Requests |-> "none"]
    /\ rsid = [r \in Requests |-> 0]
    /\ rctx = [r \in Requests |-> 0]
    /\ rres = [r \in Requests |-> "none"]
    /\ server \in Servers
    /\ NavOff
    /\ PureOff
    /\ ExtOff

\* What the caller of POST /tools/execute gets for a tool name that no
\* branch of the routing knows.  Both modules raise HTTPException(400) inside
\* the try block of execute_tool: main.py catches it with "except Exception"
\* and answers ToolResponse(success=False); main2.py has "except
\* HTTPException: raise" in front, so the caller gets the HTTP error.
unknown_tool_response(srv) ==
    IF srv = "main2" THEN "http_400" ELSE "success_false"

\* The tool requests a caller can make: a known tool it may use, a name no
\* branch of the routing knows and, in main2.py, a tool of
\* tool_permission_map whose permission the caller lacks (main.py has no
\* permissions).  main2.py raises HTTPException(403) for the last before it
\* calls get_or_create_context.
ToolRequests(srv) ==
    IF srv = "main2" THEN {"tool", "unknown_tool", "forbidden_tool"}
    ELSE {"tool", "unknown_tool"}

\* execute_tool after get_or_create_context returned: the routing on the
\* tool name.
RouteTool(r, op) ==
    IF op = "tool"
    THEN /\ rpc' = [rpc EXCEPT ![r] = "acting"]
         /\ rres' = rres
    ELSE /\ rpc' = [rpc EXCEPT ![r] = "done"]
         /\ rres' = [rres EXCEPT ![r] = unknown_tool_response(server)]

\* POST /tools/execute arrives: get_or_create_context up to its first await
\* when the session has no context, or up to the tool function's first
\* await when it has one.
ExecuteStartOf(r, s, op) ==
    /\ rpc[r] = "idle"
    /\ op \in ToolRequests(server)
    /\ rop' = [rop EXCEPT ![r] = op]
    /\ rsid' = [rsid EXCEPT ![r] = s]
    /\ IF op = "forbidden_tool"
       THEN /\ rpc' = [rpc EXCEPT ![r] = "done"]
            /\ rres' = [rres EXCEPT ![r] = "http_403"]
            /\ rctx' = rctx
       ELSE IF contexts[s] = 0
       THEN /\ rpc' = [rpc EXCEPT ![r] = "creating"]
            /\ UNCHANGED <<rctx, rres>>
       ELSE /\ rctx' = [rctx EXCEPT ![r] = contexts[s]]
            /\ RouteTool(r, op)
    /\ UNCHANGED <<contexts, created, closed, server>>
    /\ UNCHANGED <<loopVars, navVars, pureVars, extVars>>

ExecuteStart ==
    \E r \in Requests, s \in Sessions,
       op \in {"tool", "unknown_tool", "forbidden_tool"} :
        ExecuteStartOf(r, s, op)

\* The awaits of get_or_create_context are over: the new context is stored
\* under the session id and returned.  With ok false a Playwright call
\* raised and execute_tool answers success=false.
CreateFinishOf(r, ok) ==
    /\ rpc[r] = "creating"
    /\ IF ok
       THEN /\ created' = Append(created, rsid[r])
            /\ contexts' = [contexts EXCEPT ![rsid[r]] = Len(created) + 1]
            /\ rctx' = [rctx EXCEPT ![r] = Len(created) + 1]
            /\ RouteTool(r, rop[r])
       ELSE /\ rpc' = [rpc EXCEPT ![r] = "done"]
            /\ rres' = [rres EXCEPT ![r] = "success_false"]
            /\ UNCHANGED <<created, contexts, rctx>>
    /\ UNCHANGED <<closed, rop, rsid, server>>
    /\ UNCHANGED <<loopVars, navVars, pureVars, extVars>>

CreateFinish == \E r \in Requests, ok \in BOOLEAN : CreateFinishOf(r, ok)

\* The tool function returns or raises; execute_tool answers.
ToolFinishOf(r, ok) ==
    /\ rpc[r] = "acting"
    /\ rpc' = [rpc EXCEPT ![r] = "done"]
    /\ rres' = [rres EXCEPT ![r] = IF ok THEN "success_true" ELSE "success_false"]
    /\ UNCHANGED <<contexts, created, closed, rop, rsid, rctx, server>>
    /\ UNCHANGED <<loopVars, navVars, pureVars, extVars>>

ToolFinish == \E r \in Requests, ok \in BOOLEAN : ToolFinishOf(r, ok)

\* DELETE /sessions/{id} arrives: cleanup_context up to its first await.
CleanupStartOf(r, s) ==
    /\ rpc[r] = "idle"
    /\ rop' = [rop EXCEPT ![r] = "cleanup"]
    /\ rsid' = [rsid EXCEPT ![r] = s]
    /\ IF contexts[s] # 0
       THEN /\ rctx' = [rctx EXCEPT ![r] = contexts[s]]
            /\ rpc' = [rpc EXCEPT ![r] = "closing"]
            /\ rres' = rres
       ELSE /\ rpc' = [rpc EXCEPT ![r] = "done"]
            /\ rres' = [rres EXCEPT ![r] = "cleaned_up"]
            /\ rctx' = rctx
    /\ UNCHANGED <<contexts, created, closed, server>>
    /\ UNCHANGED <<loopVars, navVars, pureVars, extVars>>

CleanupStart == \E r \in Requests, s \in Sessions : CleanupStartOf(r, s)

\* The closes of cleanup_context are over (a close that raised is logged):
\* the finally clause runs del contexts[session_id], which raises KeyError
\* when the entry is gone; cleanup_session turns that into HTTP 500.
CleanupFinishOf(r) ==
    /\ rpc[r] = "closing"
    /\ closed' = closed \cup {rctx[r]}
    /\ IF contexts[rsid[r]] # 0
       THEN /\ contexts' = [contexts EXCEPT ![rsid[r]] = 0]
            /\ rres' = [rres EXCEPT ![r] = "cleaned_up"]
       ELSE /\ contexts' = contexts
            /\ rres' = [rres EXCEPT ![r] = "http_500"]
    /\ rpc' = [rpc EXCEPT ![r] = "done"]
    /\ UNCHANGED <<created, rop, rsid, rctx, server>>
    /\ UNCHANGED <<loopVars, navVars, pureVars, extVars>>

CleanupFinish == \E r \in Requests : CleanupFinishOf(r)

NextServer ==
    \/ ExecuteStart
    \/ CreateFinish
    \/ ToolFinish
    \/ CleanupStart
    \/ CleanupFinish

SpecServer == InitServer /\ [][NextServer]_vars

ContextHandles == 1..Len(created)

\* C6: within one session id tool calls are serialized: no two requests act
\* on the same session's page at the same time.
C6_ToolCallsSerializedPerSession ==
    \A r1, r2 \in Requests :
        r1 # r2 /\ rpc[r1] = "acting" /\ rpc[r2] = "acting" =>
            ~(rsid[r1] = rsid[r2] /\ rctx[r1] = rctx[r2])

\* C7: at most one context exists per session id, and every context that
\* was created and not cleaned up is the registered one.
C7_OneContextPerSession ==
    \A c \in ContextHandles \ closed :
        /\ contexts[created[c]] = c
        /\ \A d \in ContextHandles \ closed : created[d] = created[c] => d = c

\* C8: once a session has a registered context it stays the same context
\* until a cleanup removes it: it is never replaced by a fresh one.
C8_ContextNeverSilentlyReplaced ==
    [][\A s \in Sessions :
          contexts[s] # 0 /\ contexts'[s] # 0 => contexts'[s] = contexts[s]]_vars

\* C11: executing a tool name that is not registered yields a result with
\* success=false and an error message, never an exception or an HTTP error.
C11_UnknownToolYieldsSuccessFalse ==
    \A r \in Requests :
        rop[r] = "unknown_tool" /\ rpc[r] = "done" => rres[r] = "success_false"

\* C29: a tool request that is rejected, for an unknown tool name or for a
\* missing permission, creates no browser context and leaves the session
\* registry as it was.
C29_RejectedRequestLeavesRegistry ==
    [][\A r \in Requests :
          /\ rpc'[r] # rpc[r]
          /\ rop'[r] \in {"unknown_tool", "forbidden_tool"}
          => created' = created /\ contexts' = contexts]_vars

\* C30: every cleanup call of mcp_server/main.py, repeated or concurrent
\* with others for the same session id, completes without error and leaves
\* the id absent from the registry.
C30_CleanupRepeatableAndConcurrent ==
    [][\A r \in Requests :
          /\ server = "main"
          /\ rop'[r] = "cleanup"
          /\ rpc[r] # "done" /\ rpc'[r] = "done"
          => rres'[r] = "cleaned_up" /\ contexts'[rsid'[r]] = 0]_vars

(***************************************************************************)
(* One TikTok navigation: smart_tiktok_navigation of mcp_server/main.py    *)
(* (impl "main") and navigate_tiktok_with_stealth of mcp_server/server.py  *)
(* (impl "server"), each with the solve_tiktok_puzzle_captcha of its       *)
(* module.  The page is an input: every goto and every drag may leave it   *)
(* in any state.                                                           *)
(***************************************************************************)
Impls == {"main", "server"}

\* The pages a goto can load.
LoadedPages ==
    {[error_title |-> t, error_url |-> u, captcha |-> c, icon |-> FALSE, video |-> v] :
        t \in BOOLEAN, u \in BOOLEAN, c \in BOOLEAN, v \in BOOLEAN}

InitNav ==
    /\ LoopInit({"cli"}, {}, 0, 0)
    /\ SrvOff
    /\ PureOff
    /\ ExtOff
    /\ impl \in Impls
    /\ npc = "idle"
    /\ attempt = 0
    /\ gotos = 0
    /\ page = BlankPage
    /\ solved = "none"
    /\ drags = 0
    /\ nav_result = "none"
    /\ waits = <<>>
    /\ slide_distance = 0
    /\ steps = 0

\* The error-page test: main.py looks for "error" / "not found" in the page
\* title, server.py for "error" / "not-found" in the URL.
is_error_page(im, pg) == IF im = "main" THEN pg.error_title ELSE pg.error_url

\* The drag loop of solve_tiktok_puzzle_captcha as it would be with one more
\* round in server.py.
max_drags_one_more(im) == IF im = "server" THEN puzzle_attempts + 1 ELSE 1

\* Drags of one resolution: server.py loops "for attempt in range(3)",
\* main.py drags once.
max_drags(im) == IF im = "server" THEN puzzle_attempts ELSE 1

\* The check after a drag.  server.py: an element matching one of the
\* success selectors was found in the frame, or the challenge is gone.
\* main.py: detect_tiktok_captcha finds no challenge.
drag_success(im, pg) ==
    IF im = "server" THEN pg.icon \/ ~pg.captcha ELSE ~pg.captcha

\* Seconds of the asyncio.sleep before "continue", by what made the attempt
\* fail.  In server.py the error-URL test raises, so an error page is
\* handled by the except clause.
retry_sleep(im, cause) ==
    CASE cause = "error_page" -> IF im = "main" THEN 3 ELSE 5
      [] cause = "captcha" -> 5
      [] cause = "video" -> 3
      [] OTHER -> 5

\* server.py: "await asyncio.sleep(random.uniform(1, 3))" at the top of every
\* round, in whole seconds; main.py has no such pause.
Pauses(im) == IF im = "server" THEN {1, 3} ELSE {0}

\* The wait before the round that now starts, once that pause is added to the
\* sleep that preceded "continue".
with_pause(ws, j) ==
    IF ws = <<>> THEN ws ELSE [ws EXCEPT ![Len(ws)] = @ + j]

\* "if attempt < max_attempts - 1: sleep, continue, else: return success
\* False".
RetryOrFail(ws, cause) ==
    IF attempt < max_attempts - 1
    THEN /\ attempt' = attempt + 1
         /\ npc' = "goto"
         /\ nav_result' = nav_result
         /\ waits' = Append(ws, retry_sleep(impl, cause))
    ELSE /\ attempt' = attempt
         /\ npc' = "done"
         /\ nav_result' = "false"
         /\ waits' = ws

\* The offsets and step counts a drag can use.  main.py: random.randint(200,
\* 300) and random.randint(15, 25).  server.py: int(min(total_width * 0.8,
\* 300) * random.uniform(0.4, 0.7)) and random.randint(20, 30), for a frame
\* 320 or 1280 pixels wide and the factor at either end of its range.
server_slide_distance(total_width, percent) ==
    LET scaled == (total_width * 8) \div 10
        max_drag_distance == IF scaled < 300 THEN scaled ELSE 300
    IN (max_drag_distance * percent) \div 100

SlideDistances(im) ==
    IF im = "main" THEN {200, 300}
    ELSE {server_slide_distance(w, f) : w \in {320, 1280}, f \in {40, 70}}

StepCounts(im) == IF im = "main" THEN {15, 25} ELSE {20, 30}

\* The function is entered; the set-up before the loop (headers, scripts)
\* may raise, which the outer except clause reports as a failure.
NavStart ==
    \E ok \in BOOLEAN :
        /\ npc = "idle"
        /\ npc' = IF ok THEN "goto" ELSE "done"
        /\ nav_result' = IF ok THEN nav_result ELSE "false"
        /\ UNCHANGED <<impl, attempt, gotos, page, solved, drags, waits,
                       slide_distance, steps>>
        /\ UNCHANGED <<loopVars, srvVars, pureVars, extVars>>

\* One round of the loop up to the CAPTCHA detection: page.goto,
\* wait_for_load_state, the error-page test, detect_tiktok_captcha.
NavGotoOf(pg, raises, j) ==
    /\ npc = "goto"
    /\ gotos' = gotos + 1
    /\ page' = pg
    /\ solved' = "none"
    /\ drags' = 0
    /\ IF raises
       THEN RetryOrFail(with_pause(waits, j), "exception")
       ELSE IF is_error_page(impl, pg)
       THEN RetryOrFail(with_pause(waits, j), "error_page")
       ELSE /\ npc' = IF pg.captcha THEN "solver" ELSE "video"
            /\ waits' = with_pause(waits, j)
            /\ UNCHANGED <<attempt, nav_result>>
    /\ UNCHANGED <<impl, slide_distance, steps>>
    /\ UNCHANGED <<loopVars, srvVars, pureVars, extVars>>

NavGoto ==
    \E pg \in LoadedPages, raises \in BOOLEAN, j \in Pauses(impl) :
        NavGotoOf(pg, raises, j)

\* solve_tiktok_puzzle_captcha up to its first drag: the search for the
\* slider and its bounding box.
SolverStartOf(found) ==
    /\ npc = "solver"
    /\ npc' = IF found THEN "drag" ELSE "after_captcha"
    /\ solved' = IF found THEN solved ELSE "false"
    /\ UNCHANGED <<impl, attempt, gotos, page, drags, nav_result, waits,
                   slide_distance, steps>>
    /\ UNCHANGED <<loopVars, srvVars, pureVars, extVars>>

SolverStart == \E found \in BOOLEAN : SolverStartOf(found)

\* One drag of the slider and the check after it.  A Playwright call that
\* raises ends the resolution with solved false.
DragOf(raises, icon, present, d, n) ==
    /\ npc = "drag"
    /\ drags' = drags + 1
    /\ slide_distance' = d
    /\ steps' = n
    /\ LET pg == [page EXCEPT !.icon = icon, !.captcha = present]
       IN IF raises
          THEN /\ page' = page
               /\ solved' = "false"
               /\ npc' = "after_captcha"
          ELSE /\ page' = pg
               /\ IF drag_success(impl, pg)
                  THEN solved' = "true" /\ npc' = "after_captcha"
                  ELSE IF drags + 1 < max_drags(impl)
                  THEN solved' = solved /\ npc' = "drag"
                  ELSE solved' = "false" /\ npc' = "after_captcha"
    /\ UNCHANGED <<impl, attempt, gotos, nav_result, waits>>
    /\ UNCHANGED <<loopVars, srvVars, pureVars, extVars>>

Drag ==
    \E raises \in BOOLEAN, icon \in BOOLEAN, present \in BOOLEAN,
       d \in SlideDistances(impl), n \in StepCounts(impl) :
        DragOf(raises, icon, present, d, n)

\* The navigation gets captcha_solved.  server.py retries or reports the
\* failure; main.py retries only "if attempt < max_attempts - 1" and on the
\* last attempt goes on to the video test.
AfterCaptcha ==
    /\ npc = "after_captcha"
    /\ IF solved = "true"
       THEN /\ npc' = "video"
            /\ UNCHANGED <<attempt, nav_result, waits>>
       ELSE IF impl = "main" /\ ~(attempt < max_attempts - 1)
       THEN /\ npc' = "video"
            /\ UNCHANGED <<attempt, nav_result, waits>>
       ELSE RetryOrFail(waits, "captcha")
    /\ UNCHANGED <<impl, gotos, page, solved, drags, slide_distance, steps>>
    /\ UNCHANGED <<loopVars, srvVars, pureVars, extVars>>

\* The simulated user activity and the video test, then the return.
\* server.py retries or reports the failure when no video is loaded; main.py
\* retries only "if attempt < max_attempts - 1" and on the last attempt goes
\* on to return success True.
VideoOf(raises) ==
    /\ npc = "video"
    /\ IF raises
       THEN RetryOrFail(waits, "exception")
       ELSE IF page.video \/ (impl = "main" /\ ~(attempt < max_attempts - 1))
       THEN /\ npc' = "done"
            /\ nav_result' = "true"
            /\ attempt' = attempt
            /\ waits' = waits
       ELSE RetryOrFail(waits, "video")
    /\ UNCHANGED <<impl, gotos, page, solved, drags, slide_distance, steps>>
    /\ UNCHANGED <<loopVars, srvVars, pureVars, extVars>>

Video == \E raises \in BOOLEAN : VideoOf(raises)

NextNav ==
    \/ NavStart
    \/ NavGoto
    \/ SolverStart
    \/ Drag
    \/ AfterCaptcha
    \/ Video

SpecNav == InitNav /\ [][NextNav]_vars

\* C13: smart navigation makes at most 3 attempts and reports success only
\* for an attempt that passed verification: the page is no error page, no
\* CAPTCHA is present and a video element exists.
C13_SuccessOnlyWhenVerified ==
    /\ gotos <= max_attempts
    /\ npc = "done" /\ nav_result = "true" =>
          ~page.error_title /\ ~page.captcha /\ page.video

\* C14: slider-CAPTCHA resolution never reports solved=true while the
\* challenge is still present on the page.
C14_NeverSolvedWhileChallengePresent ==
    solved = "true" => ~page.captcha

\* C15: one slider-CAPTCHA resolution makes at most 3 drags and, when the
\* check after every drag found the challenge still there and no sign of
\* success, or a drag raised, it reports solved=false.
C15_AtMostThreeDragsThenUnsolved ==
    /\ drags <= puzzle_attempts
    /\ npc = "after_captcha" /\ drags > 0 /\ page.captcha /\ ~page.icon =>
          solved = "false"

\* The resolution of server.py dragged three times in vain and gave up.
C15_Witness ==
    /\ impl = "server"
    /\ npc = "after_captcha"
    /\ drags = puzzle_attempts
    /\ page.captcha /\ ~page.icon
    /\ solved = "false"

\* The last wait is complete once the round it precedes has begun.
CompletedWaits == IF npc = "goto" THEN Len(waits) - 1 ELSE Len(waits)

\* C23: within one navigation call the wait before each further retry is
\* longer than the wait before the previous retry.
C23_RetryWaitsIncrease ==
    \A i \in 2..CompletedWaits : waits[i] > waits[i - 1]

\* C24: every drag of the slider uses a horizontal offset within [200, 300]
\* pixels and between 15 and 30 pointer-move steps.
C24_DragOffsetAndStepsInRange ==
    steps > 0 =>
        /\ slide_distance >= 200 /\ slide_distance <= 300
        /\ steps >= 15 /\ steps <= 30

(***************************************************************************)
(* The ConversationManager on its own: summarize_conversation and          *)
(* remove_media_except_last_turn applied, in any order, to a conversation  *)
(* drawn from a bounded set.  A conversation is an optional system         *)
(* message, an opening that alternates tool results and tool calls, and a  *)
(* free end.                                                               *)
(***************************************************************************)
ConvAlphabet ==
    { Msg("user", Str("task", TaskLenShort)),
      Msg("assistant", Str("tool", RespLenTool)),
      Msg("user", Blocks(<<Block("json", "result"), Block("text", "page_info")>>)),
      Msg("user", Blocks(<<Block("image", "screenshot"), Block("text", "page_info")>>)),
      Msg("user", Blocks(<<Block("image", "screenshot")>>)),
      Msg("assistant", Blocks(<<Block("text", "note"), Block("image", "screenshot")>>)) }

Filler(p) ==
    [i \in 1..p |->
        IF i % 2 = 1
        THEN Msg("user", Blocks(<<Block("image", "screenshot"), Block("text", "page_info")>>))
        ELSE Msg("assistant", Str("tool", RespLenTool))]

Suffixes == UNION {[1..k -> ConvAlphabet] : k \in 0..MaxSuffix}

ConvInputs ==
    {sys \o Filler(p) \o suf :
        sys \in {<<>>, <<Msg("system", Str("system", SystemLen))>>},
        p \in 0..MaxFiller,
        suf \in Suffixes}

InitConv ==
    /\ frontend = "cli"
    /\ handlers = {}
    /\ callBound = 0
    /\ faultSteps = 0
    /\ pc = [h \in Handlers |-> "off"]
    /\ step_count = [h \in Handlers |-> 0]
    /\ stop_reason = [h \in Handlers |-> "unset"]
    /\ parsed_tool_call = [h \in Handlers |-> FALSE]
    /\ tool_results = [h \in Handlers |-> <<>>]
    /\ nb_llm_calls = [h \in Handlers |-> 0]
    /\ nb_tool_execs = [h \in Handlers |-> 0]
    /\ messages \in ConvInputs
    /\ total_tokens_used = 0
    /\ active_task = FALSE
    /\ events = [h \in Handlers |-> {}]
    /\ sum_faults = 0
    /\ sum_outcome = [h \in Handlers |-> "none"]
    /\ llm_raw_response = [h \in Handlers |-> "none"]
    /\ tool_outcome = [h \in Handlers |-> "none"]
    /\ stop_sent = [h \in Handlers |-> -1]
    /\ llm_context = <<"system">>
    /\ SrvOff
    /\ NavOff
    /\ PureOff
    /\ ExtOff

convFrame ==
    <<frontend, handlers, callBound, faultSteps, pc, step_count, stop_reason,
      parsed_tool_call, tool_results, nb_llm_calls, nb_tool_execs, active_task,
      events, sum_faults, sum_outcome, llm_raw_response, tool_outcome, stop_sent>>

\* conversation.summarize_conversation()
ConvSummarizeOf(o) ==
    /\ Len(conv_ops) < MaxOps
    /\ LET r == summarize_conversation(messages, total_tokens_used, o)
       IN /\ messages' = r.messages
          /\ total_tokens_used' = r.tokens
          /\ conv_ops' = Append(conv_ops, r.did)
          /\ llm_context' = recreate_session(llm_context, r.did)
    /\ prev_messages' = messages
    /\ UNCHANGED <<parse_text, parse_result>>
    /\ UNCHANGED <<convFrame, srvVars, navVars, extVars>>

ConvSummarize == \E o \in SummaryOutcomes : ConvSummarizeOf(o)

\* conversation.remove_media_except_last_turn()
ConvRemoveMedia ==
    /\ Len(conv_ops) < MaxOps
    /\ messages' = remove_media_except_last_turn(messages)
    /\ conv_ops' = Append(conv_ops, "remove_media")
    /\ prev_messages' = messages
    /\ UNCHANGED <<total_tokens_used, llm_context, parse_text, parse_result>>
    /\ UNCHANGED <<convFrame, srvVars, navVars, extVars>>

NextConv ==
    \/ ConvSummarize
    \/ ConvRemoveMedia

SpecConv == InitConv /\ [][NextConv]_vars

LastOp == IF conv_ops = <<>> THEN "none" ELSE conv_ops[Len(conv_ops)]

\* C16: after a summarization of a conversation of more than 2K+1 messages
\* the conversation has (1 if it began with a system message, else 0) + 1
\* + 2K messages; a system message followed by 9 messages leaves 4.
C16_MessageCountAfterSummarize ==
    /\ LastOp \in {"ok", "recreate_failed"} =>
          /\ Len(prev_messages) > 2 * KEEP_LAST_TURNS + 1
          /\ Len(messages) =
                (IF prev_messages[1].role = "system" THEN 1 ELSE 0)
                + 1 + 2 * KEEP_LAST_TURNS
    /\ LastOp = "ok" /\ Len(prev_messages) = 10
          /\ prev_messages[1].role = "system" => Len(messages) = 4
    /\ LastOp = "skipped" => Len(prev_messages) <= 2 * KEEP_LAST_TURNS + 1

\* A system message and 9 further messages were summarized into 4.
C16_Witness ==
    /\ LastOp = "ok"
    /\ Len(prev_messages) = 10
    /\ prev_messages[1].role = "system"
    /\ Len(messages) = 4
    /\ messages[1].role = "system"

RECURSIVE TextBlockTokens(_)
\* The len/4 heuristic summed over the text blocks of a block list.
TextBlockTokens(bs) ==
    IF bs = <<>> THEN 0
    ELSE (IF Head(bs).kind = "text" THEN BlockTextLen \div 4 ELSE 0)
         + TextBlockTokens(Tail(bs))

RECURSIVE RetainedTextTokens(_)
\* The len/4 heuristic summed over all the text a conversation holds: its
\* string contents and the text blocks of its structured contents.
RetainedTextTokens(msgs) ==
    IF msgs = <<>> THEN 0
    ELSE (IF Head(msgs).content.isstr
          THEN Head(msgs).content.len \div 4
          ELSE TextBlockTokens(Head(msgs).content.blocks))
         + RetainedTextTokens(Tail(msgs))

\* C17: after a summarization the running token estimate is the len/4
\* heuristic summed over exactly the text retained in the conversation,
\* with nothing retained left out.
C17_EstimateCoversRetainedText ==
    LastOp = "ok" => total_tokens_used = RetainedTextTokens(messages)

\* C18: remove_media_except_last_turn is idempotent: applied a second time
\* right after the first, it changes nothing.
C18_RemoveMediaIdempotent ==
    Len(conv_ops) >= 2
        /\ conv_ops[Len(conv_ops)] = "remove_media"
        /\ conv_ops[Len(conv_ops) - 1] = "remove_media"
    => messages = prev_messages

HasBlock(m, b) ==
    ~m.content.isstr /\ \E i \in 1..Len(m.content.blocks) : m.content.blocks[i] = b

\* Two applications in a row, the first of which replaced a message that
\* held nothing but an image by the placeholder.
C18_Witness ==
    /\ conv_ops = <<"remove_media", "remove_media">>
    /\ \E i \in 1..Len(messages) : HasBlock(messages[i], Block("text", "placeholder"))

TextBlocks(m) == SelectSeq(m.content.blocks, LAMBDA b : b.kind = "text")
HasImage(m) ==
    ~m.content.isstr /\ \E i \in 1..Len(m.content.blocks) : m.content.blocks[i].kind = "image"

\* The index of the most recent user turn of a conversation, 0 without one.
MostRecentUser(msgs) ==
    IF \E i \in 1..Len(msgs) : msgs[i].role = "user"
    THEN CHOOSE i \in 1..Len(msgs) :
            msgs[i].role = "user" /\ \A j \in 1..Len(msgs) : msgs[j].role = "user" => j <= i
    ELSE 0

\* C19: after remove_media_except_last_turn every message before the most
\* recent user turn holds no image block and still holds all of its text
\* blocks, and the messages from the most recent user turn on are unchanged.
C19_MediaRemovedBeforeLastTurn ==
    LastOp = "remove_media" =>
        /\ Len(messages) = Len(prev_messages)
        /\ \A i \in 1..Len(messages) :
              IF i < MostRecentUser(prev_messages) /\ Len(prev_messages) >= 2
              THEN /\ messages[i].role = prev_messages[i].role
                   /\ ~HasImage(messages[i])
                   /\ prev_messages[i].content.isstr => messages[i] = prev_messages[i]
                   /\ ~prev_messages[i].content.isstr =>
                         \/ TextBlocks(messages[i]) = TextBlocks(prev_messages[i])
                         \/ /\ TextBlocks(prev_messages[i]) = <<>>
                            /\ TextBlocks(messages[i]) = <<Block("text", "placeholder")>>
              ELSE messages[i] = prev_messages[i]

\* An application that removed an image from an earlier message and left the
\* image of the most recent user turn in place.
C19_Witness ==
    /\ LastOp = "remove_media"
    /\ \E i \in 1..Len(messages) :
          i < MostRecentUser(prev_messages)
          /\ HasImage(prev_messages[i]) /\ ~HasImage(messages[i])
    /\ \E i \in 1..Len(messages) :
          i >= MostRecentUser(prev_messages) /\ HasImage(messages[i])

(***************************************************************************)
(* LLMClient.extract_tool_call_json on its own, applied to response texts  *)
(* drawn from a bounded set.  The loop above only distinguishes the        *)
(* responses that parse as a tool call from those that do not; here the    *)
(* function is computed step by step from the shape of the text.           *)
(***************************************************************************)
Texts ==
    {[fence |-> f, prose |-> p, pad |-> w, body |-> "object", keys |-> k] :
        f \in {"json", "JSON", "plain", "none"}, p \in BOOLEAN, w \in BOOLEAN,
        k \in SUBSET {"tool", "arguments", "comment"}}
    \cup
    {[fence |-> f, prose |-> p, pad |-> w, body |-> b, keys |-> {}] :
        f \in {"json", "JSON", "plain", "none"}, p \in BOOLEAN, w \in BOOLEAN,
        b \in {"malformed", "array", "words"}}

None == [none |-> TRUE, keys |-> {}]
Dict(keys) == [none |-> FALSE, keys |-> keys]

\* re.search(r"```json\s*(\{.*?\})\s*```", text, re.DOTALL | re.IGNORECASE):
\* a fence labelled json in any case, directly followed by something in
\* braces, wherever it is in the text.
fence_match(text) ==
    text.fence \in {"json", "JSON"} /\ text.body \in {"object", "malformed"}

\* The fallback: the whole stripped text starts with "{" and ends with "}".
bare_braces(text) ==
    text.fence = "none" /\ ~text.prose /\ text.body \in {"object", "malformed"}

\* json_string after the two attempts, "" when neither found one.
json_string(text) ==
    IF fence_match(text) \/ bare_braces(text) THEN text.body ELSE ""

\* The function: json.loads of json_string, JSONDecodeError caught, then
\* the test isinstance(dict) and "tool" in and "arguments" in; the dict that
\* was loaded is what is returned.
extract_tool_call_json_text(text) ==
    IF json_string(text) = "" THEN None
    ELSE IF json_string(text) # "object" THEN None
    ELSE IF "tool" \in text.keys /\ "arguments" \in text.keys
    THEN Dict(text.keys)
    ELSE None

InitParse ==
    /\ LoopInit({"cli"}, {}, 0, 0)
    /\ SrvOff
    /\ NavOff
    /\ PureOff
    /\ ExtOff

ParseOf(text) ==
    /\ parse_text' = text
    /\ parse_result' = <<extract_tool_call_json_text(text)>>
    /\ UNCHANGED <<prev_messages, conv_ops>>
    /\ UNCHANGED <<loopVars, srvVars, navVars, extVars>>

Parse == \E text \in Texts : ParseOf(text)

NextParse == Parse

SpecParse == InitParse /\ [][NextParse]_vars

\* A tool call as the output contract defines it: a fenced block, or the
\* whole trimmed text, that is one JSON object with the keys tool and
\* arguments.
ValidToolCallText(text) ==
    /\ text.fence \in {"json", "JSON"} \/ (text.fence = "none" /\ ~text.prose)
    /\ text.body = "object"
    /\ text.keys = {"tool", "arguments"}

\* C20: extract_tool_call_json returns a dict with exactly the keys tool and
\* arguments when the input is a valid fenced or bare tool-call JSON object,
\* and none for every other text, including malformed JSON.
C20_ParsesExactlyToolCalls ==
    parse_result # <<>> =>
        IF ValidToolCallText(parse_text)
        THEN parse_result[1] = Dict({"tool", "arguments"})
        ELSE parse_result[1] = None

(***************************************************************************)
(* CAPTCHA detection and resolution on one page: detect_and_solve_captcha  *)
(* of mcp_server/server.py with the strategy it dispatches to (impl        *)
(* "server"), and detect_tiktok_captcha followed by                        *)
(* solve_tiktok_puzzle_captcha of mcp_server/main.py (impl "main").  The   *)
(* page is given by the set of families whose selector matches it.         *)
(***************************************************************************)
Families == {"recaptcha_v2", "hcaptcha", "tiktok_puzzle", "text", "image"}

\* The order of the query_selector tests of detect_and_solve_captcha.
ProbeOrder == <<"recaptcha_v2", "hcaptcha", "tiktok_puzzle", "text", "image">>

\* The family of the first test of the given order that matches, "none"
\* when no test does.
first_match(order, sigs) ==
    IF \E i \in 1..Len(order) : order[i] \in sigs
    THEN order[CHOOSE i \in 1..Len(order) :
                  /\ order[i] \in sigs
                  /\ \A j \in 1..(i - 1) : order[j] \notin sigs]
    ELSE "none"

\* The family whose strategy is called.  main.py only knows the puzzle.
detect(im, sigs) ==
    IF im = "server" THEN first_match(ProbeOrder, sigs)
    ELSE IF "tiktok_puzzle" \in sigs THEN "tiktok_puzzle" ELSE "none"

Result(keys, slv) == [keys |-> keys, solved |-> slv]

\* The dicts the return statements of each strategy build.  main.py's
\* solve_tiktok_puzzle_captcha returns a bare bool, a result without keys.
strategy_results(im, family, service) ==
    IF im = "main"
    THEN {Result({}, "true"), Result({}, "false")}
    ELSE CASE family = "recaptcha_v2" ->
                IF ~service
                THEN {Result({"solved", "method"}, "true"),
                      Result({"detected", "solved", "message"}, "false")}
                ELSE {Result({"detected", "solved", "error"}, "false"),
                      Result({"detected", "solved", "method"}, "true")}
           [] family = "hcaptcha" ->
                {Result({"detected", "solved", "message"}, "false")}
           [] family = "tiktok_puzzle" ->
                {Result({"detected", "message"}, "absent"),
                 Result({"detected", "solved", "error"}, "false"),
                 Result({"detected", "solved", "method", "attempt"}, "true"),
                 Result({"detected", "solved", "message"}, "false")}
           [] family = "text" ->
                {Result({"detected", "solved", "error"}, "false"),
                 Result({"detected", "solved", "method", "text"}, "true")}
           [] OTHER ->
                {Result({"detected", "solved", "message"}, "false")}

InitCaptcha ==
    /\ LoopInit({"cli"}, {}, 0, 0)
    /\ SrvOff
    /\ PureOff
    /\ RestOff
    /\ RateOff
    /\ impl \in Impls
    /\ npc = "off"
    /\ attempt = 0
    /\ gotos = 0
    /\ page = BlankPage
    /\ solved = "none"
    /\ drags = 0
    /\ nav_result = "none"
    /\ waits = <<>>
    /\ slide_distance = 0
    /\ steps = 0
    /\ cap_pc = "page"
    /\ cap_sigs \in SUBSET Families
    /\ cap_service \in BOOLEAN
    /\ cap_family = "none"
    /\ cap_result = NoResult

\* The query_selector tests.  When one raises, detect_and_solve_captcha
\* returns {"detected": False, "error": ...} and detect_tiktok_captcha False;
\* when none matches, {"detected": False, "message": ...} and False.
CaptchaDetectOf(raises) ==
    /\ cap_pc = "page"
    /\ LET f == IF raises THEN "none" ELSE detect(impl, cap_sigs)
       IN /\ cap_family' = f
          /\ cap_pc' = IF f = "none" THEN "done" ELSE "resolve"
          /\ cap_result' =
                IF f # "none" THEN cap_result
                ELSE IF impl = "main" THEN Result({}, "absent")
                ELSE IF raises THEN Result({"detected", "error"}, "absent")
                ELSE Result({"detected", "message"}, "absent")
    /\ UNCHANGED <<cap_sigs, cap_service>>
    /\ UNCHANGED <<loopVars, srvVars, navVars, pureVars, restVars, rateVars>>

CaptchaDetect == \E raises \in BOOLEAN : CaptchaDetectOf(raises)

\* The strategy of the detected family runs and returns.
CaptchaResolveOf(res) ==
    /\ cap_pc = "resolve"
    /\ res \in strategy_results(impl, cap_family, cap_service)
    /\ cap_result' = res
    /\ cap_pc' = "done"
    /\ UNCHANGED <<cap_sigs, cap_service, cap_family>>
    /\ UNCHANGED <<loopVars, srvVars, navVars, pureVars, restVars, rateVars>>

CaptchaResolve ==
    \E res \in UNION {strategy_results(im, f, sv) :
                         im \in Impls, f \in Families, sv \in BOOLEAN} :
        CaptchaResolveOf(res)

NextCaptcha ==
    \/ CaptchaDetect
    \/ CaptchaResolve

SpecCaptcha == InitCaptcha /\ [][NextCaptcha]_vars

\* The order the detection is said to probe in.
PuzzleFirstOrder == <<"tiktok_puzzle", "recaptcha_v2", "hcaptcha", "text", "image">>

\* C21: detect_and_solve_captcha probes the families in the order
\* slider-puzzle, reCAPTCHA v2, hCaptcha, text, image, and on a page that
\* matches several families the one handled is the earliest in that order.
C21_PuzzleProbedFirst ==
    impl = "server" /\ cap_pc \in {"resolve", "done"} /\ cap_family # "none" =>
        cap_family = first_match(PuzzleFirstOrder, cap_sigs)

\* C22: every result a resolution strategy returns carries the fields
\* detected and solved, with method when it solved the challenge and error
\* when it did not.
C22_ResultCarriesDetectedAndSolved ==
    cap_pc = "done" /\ cap_family # "none" =>
        /\ {"detected", "solved"} \subseteq cap_result.keys
        /\ cap_result.solved = "true" => "method" \in cap_result.keys
        /\ cap_result.solved = "false" => "error" \in cap_result.keys

(***************************************************************************)
(* The session handling of the two REST front ends of src/py:              *)
(* mcp_server_api.py (POST /sessions, DELETE /sessions/{id}, /tools/...)   *)
(* and api_server.py (/api/v1/..., DELETE /api/v1/sessions/{id}).  Session *)
(* ids are uuid4 strings: a new session gets an id never handed out        *)
(* before, and a client may name any id, created or not.                   *)
(***************************************************************************)
RestImpls == {"mcp_server_api", "api_server"}
RestIds == 1..NumRestIds
RestTools == {"navigate", "click"}

InitRest ==
    /\ LoopInit({"cli"}, {}, 0, 0)
    /\ SrvOff
    /\ NavOff
    /\ PureOff
    /\ CapOff
    /\ RateOff
    /\ rest_impl \in RestImpls
    /\ rest_sessions = [s \in RestIds |-> "absent"]
    /\ rest_created = {}
    /\ rest_last = NoCall

\* str(uuid.uuid4()): an id that was never handed out.
FreshIds == RestIds \ rest_created

\* SessionManager.create_session / the creating branch of
\* get_or_create_session.
create_session(sessions, id) == [sessions EXCEPT ![id] = "active"]

\* How the id of a request stands in SessionManager.sessions.
session_state(sessions, sid) == IF sid = 0 THEN "absent" ELSE sessions[sid]

\* POST /sessions of mcp_server_api.py.
RestCreateSessionOf(id) ==
    /\ rest_impl = "mcp_server_api"
    /\ id \in FreshIds
    /\ rest_sessions' = create_session(rest_sessions, id)
    /\ rest_created' = rest_created \cup {id}
    /\ UNCHANGED <<rest_impl, rest_last>>
    /\ UNCHANGED <<loopVars, srvVars, navVars, pureVars, capVars, rateVars>>

RestCreateSession == \E id \in RestIds : RestCreateSessionOf(id)

\* DELETE of a session the manager holds.  mcp_server_api.py keeps the
\* entry and sets its status to "closed"; api_server.py deletes the entry.
\* Both answer 404 for an id the manager does not hold.
RestCloseSessionOf(sid) ==
    /\ rest_sessions[sid] # "absent"
    /\ rest_sessions' = [rest_sessions EXCEPT
           ![sid] = IF rest_impl = "mcp_server_api" THEN "closed" ELSE "absent"]
    /\ UNCHANGED <<rest_impl, rest_created, rest_last>>
    /\ UNCHANGED <<loopVars, srvVars, navVars, pureVars, capVars, rateVars>>

RestCloseSession == \E sid \in RestIds : RestCloseSessionOf(sid)

\* What a tool endpoint does with the session id of the request (0: none):
\* whether it creates a session, and its answer.
\*   mcp_server_api.py navigate: "request.session_id or await
\*     create_session()", then update_activity, which ignores unknown ids;
\*   mcp_server_api.py click: session_id is a required field, then
\*     get_session and 404 when the manager holds no entry;
\*   api_server.py, every tool: get_or_create_session.
tool_endpoint(im, tool, sid, sessions) ==
    CASE im = "mcp_server_api" /\ tool = "navigate" ->
           [creates |-> sid = 0, status |-> "success", acted |-> TRUE]
      [] im = "mcp_server_api" /\ sid = 0 ->
           [creates |-> FALSE, status |-> "http_422", acted |-> FALSE]
      [] im = "mcp_server_api" ->
           IF sessions[sid] = "absent"
           THEN [creates |-> FALSE, status |-> "http_404", acted |-> FALSE]
           ELSE [creates |-> FALSE, status |-> "success", acted |-> TRUE]
      [] OTHER ->
           [creates |-> session_state(sessions, sid) = "absent",
            status |-> "success", acted |-> TRUE]

RestToolCallOf(tool, sid, id) ==
    /\ rest_impl \in RestImpls
    /\ LET e == tool_endpoint(rest_impl, tool, sid, rest_sessions)
       IN /\ IF e.creates
             THEN /\ id \in FreshIds
                  /\ rest_sessions' = create_session(rest_sessions, id)
                  /\ rest_created' = rest_created \cup {id}
             ELSE /\ id = 1
                  /\ UNCHANGED <<rest_sessions, rest_created>>
          /\ rest_last' = [tool |-> tool, sid |-> sid,
                           was |-> session_state(rest_sessions, sid),
                           status |-> e.status, acted |-> e.acted]
    /\ UNCHANGED rest_impl
    /\ UNCHANGED <<loopVars, srvVars, navVars, pureVars, capVars, rateVars>>

RestToolCall ==
    \E tool \in RestTools, sid \in 0..NumRestIds, id \in RestIds :
        RestToolCallOf(tool, sid, id)

NextRest ==
    \/ RestCreateSession
    \/ RestCloseSession
    \/ RestToolCall

SpecRest == InitRest /\ [][NextRest]_vars

\* C25: a tool call whose session id is missing, unknown or already closed
\* is rejected with an error and performs no action.
C25_OnlyOpenSessionsAccepted ==
    rest_last.tool # "none" /\ rest_last.was # "active" =>
        rest_last.status # "success" /\ ~rest_last.acted

(***************************************************************************)
(* The rate limiter of mcp_server/main2.py: rate_limit_middleware and      *)
(* RateLimiter.check_rate_limit of security/auth.py.  Time advances in     *)
(* ticks, WindowTicks to the minute; every request carries a valid token.  *)
(***************************************************************************)
Users == 1..NumUsers
Paths == {"/health", "/tools/execute"}

InitRate ==
    /\ LoopInit({"cli"}, {}, 0, 0)
    /\ SrvOff
    /\ NavOff
    /\ PureOff
    /\ CapOff
    /\ RestOff
    /\ rl_now = 0
    /\ rl_requests = [u \in Users |-> <<>>]
    /\ rl_last = NoRequest

\* RateLimiter.check_rate_limit: drop the times not after minute_ago, refuse
\* when MAX_REQUESTS_PER_MINUTE remain, else record the request.
check_rate_limit(reqs, now) ==
    LET kept == SelectSeq(reqs, LAMBDA t : t > now - WindowTicks)
    IN IF Len(kept) >= MAX_REQUESTS_PER_MINUTE
       THEN [ok |-> FALSE, held |-> Len(kept), requests |-> kept]
       ELSE [ok |-> TRUE, held |-> Len(kept), requests |-> Append(kept, now)]

\* rate_limit_middleware after the limiter answered.  The HTTPException(429)
\* is raised inside the try block whose "except Exception: pass" catches
\* it, and the function goes on to "return await call_next(request)".
middleware_response(ok) == [status |-> 200, reached |-> TRUE]

\* Requests of one user the exploration lets the limiter hold: the first
\* user may fill its window, the others send a few.
HeldBound(u) == IF u = 1 THEN MAX_REQUESTS_PER_MINUTE ELSE OtherUserRequests

\* One request through rate_limit_middleware.
RateRequestOf(u, path) ==
    /\ Len(rl_requests[u]) <= HeldBound(u)
    /\ IF path = "/health"
       THEN /\ rl_requests' = rl_requests
            /\ rl_last' = [user |-> u, held |-> 0, status |-> 200, reached |-> TRUE]
       ELSE LET c == check_rate_limit(rl_requests[u], rl_now)
            IN /\ Len(c.requests) <= HeldBound(u)
               /\ rl_requests' = [rl_requests EXCEPT ![u] = c.requests]
               /\ rl_last' = [user |-> u, held |-> c.held,
                              status |-> middleware_response(c.ok).status,
                              reached |-> middleware_response(c.ok).reached]
    /\ UNCHANGED rl_now
    /\ UNCHANGED <<loopVars, srvVars, navVars, pureVars, capVars, restVars>>

RateRequest == \E u \in Users, path \in Paths : RateRequestOf(u, path)

\* Time passes.
RateTick ==
    /\ rl_now < MaxTick
    /\ rl_now' = rl_now + 1
    /\ UNCHANGED <<rl_requests, rl_last>>
    /\ UNCHANGED <<loopVars, srvVars, navVars, pureVars, capVars, restVars>>

NextRate ==
    \/ RateRequest
    \/ RateTick

SpecRate == InitRate /\ [][NextRate]_vars

\* C26: once a user has made MAX_REQUESTS_PER_MINUTE requests within the
\* last minute, a further request of that user inside the window is
\* rejected with HTTP 429 and does not reach the endpoint.
C26_OverLimitRequestRejected ==
    rl_last.user # 0 /\ rl_last.held >= MAX_REQUESTS_PER_MINUTE =>
        rl_last.status = 429 /\ ~rl_last.reached

====
